---- MODULE Spec2Model ----
(***************************************************************************)
(* delayedgram (src/main.py): a directory-backed queue of Instagram posts. *)
(* `--new` enqueues an empty record, `--cron` runs try_upload forever with *)
(* a sleep between cycles.  Time is counted in whole ticks; a day has      *)
(* DayLen ticks.  Optional values are <<>> (None) or <<x>> (a value).      *)
(***************************************************************************)
EXTENDS Integers, Sequences, FiniteSets, TLC

\* ---------------------------------------------------------------- bounds
MaxTime == 5
MaxRecords == 2
DayLen == 3
MaxSkew == 3

\* ------------------------------------------------------ program constants
NEW_OFFSET == 1
OneSecond == 1

None == <<>>
Some(x) == <<x>>

Min(a, b) == IF a < b THEN a ELSE b
MaxOf(S) == CHOOSE m \in S : \A x \in S : x <= m
MinOf(S) == CHOOSE m \in S : \A x \in S : m <= x

VARIABLES
    unprocessed,  \* cfg.unprocessed_dir_fp: id -> [meta, images]
    processed,    \* cfg.processed_dir_fp:   id -> [meta, images]
    now,          \* dt.datetime.now()
    cfg,          \* Config, loaded once by startup()
    created,      \* number of records written by --new
    lastNew,      \* what the last --new computed
    lastCycle,    \* what the last try_upload call did
    pubLog,       \* the collaborator's feed: successful photo/album uploads
    sleepUntil,   \* end of the cron loop's time.sleep
    crashed,      \* the cron loop died with an uncaught exception
    procs         \* two concurrent instances: where each invocation stands

vars == <<unprocessed, processed, now, cfg, created, lastNew, lastCycle,
          pubLog, sleepUntil, crashed, procs>>

\* --------------------------------------------------------- time scheduler
\* dt.datetime.now().replace(hour=.., minute=.., second=.., microsecond=0)
TodayAt(t, upload_time) == (t \div DayLen) * DayLen + upload_time

next_upload_time_no_floor_mut(last_upload_time, upload_time, upload_delay, t) ==
    TodayAt(t, upload_time) + upload_delay

next_upload_time(last_upload_time, upload_time, upload_delay, t) ==
    LET next_upload == TodayAt(t, upload_time) + upload_delay IN
    IF last_upload_time # None
    THEN LET potential_next_upload == last_upload_time[1] + upload_delay IN
         IF potential_next_upload > next_upload
         THEN potential_next_upload
         ELSE next_upload
    ELSE next_upload

\* --------------------------------------------------------- post repository
InstaUploadMeta(caption, loc_lat, loc_long, upload_at) ==
    [caption |-> caption, loc_lat |-> loc_lat, loc_long |-> loc_long,
     upload_at |-> upload_at]

load_from_dir(id, parent_dir) ==
    [id |-> id, meta |-> parent_dir[id].meta, images |-> parent_dir[id].images]

\* Entry names are encoded as integers: a key n >= 0 is the directory named
\* str(n); the key JunkName is an entry load_all_from_parent_dir cannot load
\* (a name int() rejects, or a directory without meta.json or ims).
JunkName == -1

unloadable_skipped_mut(dir_fp) == FALSE

\* lines 73-75 raise (ValueError, FileNotFoundError, ValidationError)
unloadable(dir_fp) == \E k \in DOMAIN dir_fp : k < 0

RECURSIVE SortById(_)
SortById(ids) ==
    IF ids = {} THEN <<>>
    ELSE LET m == MinOf(ids) IN <<m>> \o SortById(ids \ {m})

RECURSIVE SortByIdDesc(_)
SortByIdDesc(ids) ==
    IF ids = {} THEN <<>>
    ELSE LET m == MaxOf(ids) IN <<m>> \o SortByIdDesc(ids \ {m})

load_all_unsorted_mut(dir_fp) ==
    LET ids == SortByIdDesc(DOMAIN dir_fp) IN
    [i \in 1..Len(ids) |-> load_from_dir(ids[i], dir_fp)]

load_all_from_parent_dir(dir_fp) ==
    LET ids == SortById(DOMAIN dir_fp) IN
    [i \in 1..Len(ids) |-> load_from_dir(ids[i], dir_fp)]

validate_post_null_is_unset_mut(upload) ==
    /\ Len(upload.images) > 0
    /\ upload.meta.loc_lat \notin {None, Some(0)}
    /\ upload.meta.loc_long \notin {None, Some(0)}

\* Python: None != 0. is True, so a null coordinate passes the test.
validate_post(upload) ==
    /\ Len(upload.images) > 0
    /\ upload.meta.loc_lat # Some(0)
    /\ upload.meta.loc_long # Some(0)

new_id_no_offset_mut(newest_upload) ==
    IF newest_upload # None THEN newest_upload[1].id ELSE 0

new_id_of(newest_upload) ==
    IF newest_upload # None THEN newest_upload[1].id + NEW_OFFSET ELSE 0

write_empty_upload_exist_ok_mut(dir_fp, newest_upload, c, t) ==
    LET upload_at == next_upload_time(
            IF newest_upload # None
            THEN Some(newest_upload[1].meta.upload_at) ELSE None,
            c.default_upload_time, c.default_upload_delta, t)
        new_id == new_id_of(newest_upload)
        meta == InstaUploadMeta("", Some(0), Some(0), upload_at)
    IN  [ok |-> TRUE, id |-> new_id,
         dir |-> (new_id :> [meta |-> meta, images |-> <<>>]) @@ dir_fp]

\* os.makedirs raises FileExistsError when <dir_fp>/<new_id>/ims exists.
write_empty_upload(dir_fp, newest_upload, c, t) ==
    LET upload_at == next_upload_time(
            IF newest_upload # None
            THEN Some(newest_upload[1].meta.upload_at) ELSE None,
            c.default_upload_time, c.default_upload_delta, t)
        new_id == new_id_of(newest_upload)
        meta == InstaUploadMeta("", Some(0), Some(0), upload_at)
    IN  IF new_id \in DOMAIN dir_fp
        THEN [ok |-> FALSE, id |-> new_id, dir |-> dir_fp]
        ELSE [ok |-> TRUE, id |-> new_id,
              dir |-> (new_id :> [meta |-> meta, images |-> <<>>]) @@ dir_fp]

all_posts_of(proc, unproc) ==
    load_all_from_parent_dir(proc) \o load_all_from_parent_dir(unproc)

newest_upload_of(proc, unproc) ==
    LET all_posts == all_posts_of(proc, unproc) IN
    IF Len(all_posts) > 0 THEN Some(all_posts[Len(all_posts)]) ELSE None

\* ------------------------------------------------------------ collaborator
\* What the environment does to the calls of one cycle: the first call of
\* the named kind raises; "none" lets every call succeed.
Faults == {"none", "auth", "loc", "publish", "rename"}

upload_post_first_image_mut(upload, fault) ==
    LET needs_loc == upload.meta.loc_lat # None /\ upload.meta.loc_long # None
    IN  IF needs_loc /\ fault = "loc"
        THEN [raised |-> TRUE, loc_calls |-> 1, publish_calls |-> 0,
              kind |-> "none", posted |-> FALSE]
        ELSE [raised |-> fault = "publish",
              loc_calls |-> IF needs_loc THEN 1 ELSE 0,
              publish_calls |-> 1, kind |-> "photo",
              posted |-> fault # "publish"]

\* InstaClient.upload_post: location lookup only when both coordinates are
\* non-null, photo_upload for exactly one path, album_upload otherwise.
upload_post(upload, fault) ==
    LET needs_loc == upload.meta.loc_lat # None /\ upload.meta.loc_long # None
        kind == IF Len(upload.images) = 1 THEN "photo" ELSE "album"
    IN  IF needs_loc /\ fault = "loc"
        THEN [raised |-> TRUE, loc_calls |-> 1, publish_calls |-> 0,
              kind |-> "none", posted |-> FALSE]
        ELSE [raised |-> fault = "publish",
              loc_calls |-> IF needs_loc THEN 1 ELSE 0,
              publish_calls |-> 1, kind |-> kind,
              posted |-> fault # "publish"]

os_rename_copy_mut(src, dst, id, fails) ==
    IF fails
    THEN [raised |-> TRUE, src |-> src, dst |-> dst]
    ELSE [raised |-> FALSE, src |-> src, dst |-> (id :> src[id]) @@ dst]

os_rename_partial_mut(src, dst, id, fails) ==
    IF fails
    THEN [raised |-> TRUE, src |-> src, dst |-> (id :> src[id]) @@ dst]
    ELSE [raised |-> FALSE,
          src |-> [i \in DOMAIN src \ {id} |-> src[i]],
          dst |-> (id :> src[id]) @@ dst]

\* os.rename of a directory: it moves the whole record or raises and
\* leaves both roots as they were.
os_rename(src, dst, id, fails) ==
    IF fails
    THEN [raised |-> TRUE, src |-> src, dst |-> dst]
    ELSE [raised |-> FALSE,
          src |-> [i \in DOMAIN src \ {id} |-> src[i]],
          dst |-> (id :> src[id]) @@ dst]

not_ready_late_mut(upload, t) == upload.meta.upload_at > t + OneSecond

\* line 139: upload.meta.upload_at > dt.datetime.now()
not_ready(upload, t) == upload.meta.upload_at > t

\* ------------------------------------------------------------ dispatch loop
Result(outcome, ret, unproc, proc, upload, auth, up, escaped) ==
    [outcome |-> outcome, ret |-> ret, unprocessed |-> unproc,
     processed |-> proc, upload |-> upload, auth_calls |-> auth,
     loc_calls |-> up.loc_calls, publish_calls |-> up.publish_calls,
     kind |-> up.kind, posted |-> up.posted, escaped |-> escaped]

NoCalls ==
    [raised |-> FALSE, loc_calls |-> 0, publish_calls |-> 0, kind |-> "none",
     posted |-> FALSE]

\* One call of try_upload.  t is the clock read on line 139 and t2 the
\* second read on line 141 (t2 >= t).  ret is the return value (None or a
\* SleepFor); escaped says that an exception left the function.
try_upload(c, unproc, proc, t, t2, fault) ==
    IF unloadable(unproc)
    THEN Result("loaderror", None, unproc, proc, None, 0, NoCalls, TRUE)
    ELSE
    LET loaded == load_all_from_parent_dir(unproc) IN
    IF Len(loaded) = 0
    THEN Result("empty", None, unproc, proc, None, 0, NoCalls, FALSE)
    ELSE
    LET upload == loaded[1] IN
    IF not_ready(upload, t)
    THEN Result("notready", Some(upload.meta.upload_at - t2 + OneSecond),
                unproc, proc, Some(upload), 0, NoCalls, FALSE)
    ELSE IF ~validate_post(upload)
    THEN Result("invalid", None, unproc, proc, Some(upload), 0, NoCalls, FALSE)
    ELSE IF fault = "auth"
    THEN \* InstaClient(...) is built before the try block: login's
         \* exception leaves try_upload.
         Result("authfail", None, unproc, proc, Some(upload), 1, NoCalls, TRUE)
    ELSE
    LET up == upload_post(upload, fault) IN
    IF up.raised
    THEN Result(IF up.publish_calls = 0 THEN "locfail" ELSE "pubfail",
                None, unproc, proc, Some(upload), 1, up, FALSE)
    ELSE
    LET mv == os_rename(unproc, proc, upload.id, fault = "rename") IN
    Result(IF mv.raised THEN "renamefail" ELSE "ok",
           None, mv.src, mv.dst, Some(upload), 1, up, FALSE)

\* lines 207-210 of the cron loop
cron_sleep_one_second_mut(ret, c) ==
    IF ret = None THEN OneSecond ELSE Min(ret[1], c.check_interval)

cron_sleep_for(ret, c) ==
    IF ret = None THEN c.check_interval ELSE Min(ret[1], c.check_interval)

\* time.sleep raises ValueError for a negative length
time_sleep_raises(secs) == secs < 0

\* ------------------------------------------------------------------- state
Configs ==
    [default_upload_delta : {1, 2},
     default_upload_time : {0, DayLen - 1},
     check_interval : {1, 2}]

NoCycle ==
    [at |-> -1, outcome |-> "none", id |-> None, auth_calls |-> 0,
     loc_calls |-> 0, publish_calls |-> 0, kind |-> "none",
     sleep_for |-> None]

\* Two invocations of the program at a time, for the runs in which two
\* instances share the roots; they stay idle in the single-instance runs.
Instances == {1, 2}

IdleProcs ==
    [upload |-> [i \in Instances |->
                   [pc |-> "idle", head |-> None, outcome |-> "none",
                    escaped |-> FALSE]],
     new |-> [i \in Instances |->
                [pc |-> "idle", seen |-> <<>>, newest |-> None, id |-> -1,
                 ok |-> FALSE, escaped |-> FALSE]]]

NoNew == [id |-> -1, ok |-> TRUE, n_processed |-> 0]

Init ==
    /\ unprocessed = <<>>
    /\ processed = <<>>
    /\ now = 0
    /\ cfg \in Configs
    /\ created = 0
    /\ lastNew = NoNew
    /\ lastCycle = NoCycle
    /\ pubLog = <<>>
    /\ sleepUntil = 0
    /\ crashed = FALSE
    /\ procs = IdleProcs

\* `--new`
New ==
    /\ created < MaxRecords
    /\ IF unloadable(processed) \/ unloadable(unprocessed)
       THEN \* load_all_from_parent_dir raises: nothing is written
            /\ lastNew' = [id |-> -1, ok |-> FALSE, n_processed |-> 0]
            /\ UNCHANGED <<unprocessed, created>>
       ELSE
       LET newest_upload == newest_upload_of(processed, unprocessed)
           w == write_empty_upload(unprocessed, newest_upload, cfg, now)
       IN  /\ unprocessed' = w.dir
           /\ created' = IF w.ok THEN created + 1 ELSE created
           /\ lastNew' = [id |-> w.id, ok |-> w.ok,
                          n_processed |-> Cardinality(DOMAIN processed)]
    /\ UNCHANGED <<processed, now, cfg, lastCycle, pubLog, sleepUntil, crashed,
                   procs>>

\* What a person puts into a pending record between creation and
\* publication: images, caption and location (upload_at is left alone).
Contents ==
    { [caption |-> "c", loc_lat |-> Some(1), loc_long |-> Some(1), images |-> <<"a">>],
      [caption |-> "c", loc_lat |-> None, loc_long |-> None, images |-> <<"a">>],
      [caption |-> "c", loc_lat |-> Some(1), loc_long |-> Some(1), images |-> <<"a", "b">>] }

HumanEdit ==
    /\ \E id \in DOMAIN unprocessed, k \in Contents :
         LET old == unprocessed[id]
             new == [meta |-> InstaUploadMeta(k.caption, k.loc_lat, k.loc_long,
                                              old.meta.upload_at),
                     images |-> k.images]
         IN  /\ new # old
             /\ unprocessed' = [unprocessed EXCEPT ![id] = new]
    /\ UNCHANGED <<processed, now, cfg, created, lastNew, lastCycle, pubLog,
                   sleepUntil, crashed, procs>>

\* One iteration of `while True:` in --cron: try_upload, then the sleep.
\* The clock may advance by skew between the two reads of the not-ready
\* branch (a print to stdout stands between them).
CronCycle ==
    /\ ~crashed
    /\ now >= sleepUntil
    /\ \E fault \in Faults, skew \in 0..MaxSkew :
         /\ now + skew <= MaxTime
         /\ LET r == try_upload(cfg, unprocessed, processed, now, now + skew, fault)
                sleep_for == cron_sleep_for(r.ret, cfg)
                dies == r.escaped \/ time_sleep_raises(sleep_for)
            IN  /\ r.outcome # "notready" => skew = 0
                /\ r.outcome \in {"loaderror", "empty", "notready", "invalid"}
                      => fault = "none"
                /\ unprocessed' = r.unprocessed
                /\ processed' = r.processed
                /\ pubLog' = IF r.posted
                             THEN Append(pubLog, [id |-> r.upload[1].id, at |-> now])
                             ELSE pubLog
                /\ now' = IF r.outcome = "notready" THEN now + skew ELSE now
                /\ crashed' = dies
                /\ sleepUntil' = IF dies THEN sleepUntil ELSE now' + sleep_for
                /\ lastCycle' = [at |-> now, outcome |-> r.outcome,
                                 id |-> IF r.upload = None THEN None
                                        ELSE Some(r.upload[1].id),
                                 auth_calls |-> r.auth_calls,
                                 loc_calls |-> r.loc_calls,
                                 publish_calls |-> r.publish_calls,
                                 kind |-> r.kind,
                                 sleep_for |-> IF r.escaped THEN None
                                               ELSE Some(sleep_for)]
    /\ UNCHANGED <<cfg, created, lastNew, procs>>

Tick ==
    /\ now < MaxTime
    /\ now' = now + 1
    /\ UNCHANGED <<unprocessed, processed, cfg, created, lastNew, lastCycle,
                   pubLog, sleepUntil, crashed, procs>>

Next == New \/ HumanEdit \/ CronCycle \/ Tick

Spec == Init /\ [][Next]_vars

\* A second specification for the claims about validate_post: one pending
\* record whose images and coordinates are drawn from every combination,
\* and the cron loop running over it.
Coordinates == {None, Some(0), Some(1)}
ImageLists == {<<>>, <<"a">>, <<"a", "b">>}

InitValidate ==
    /\ \E lat \in Coordinates, long \in Coordinates, ims \in ImageLists,
          at \in {0, 1} :
         unprocessed = (0 :> [meta |-> InstaUploadMeta("c", lat, long, at),
                              images |-> ims])
    /\ processed = <<>>
    /\ now = 0
    /\ cfg \in Configs
    /\ created = 1
    /\ lastNew = [id |-> 0, ok |-> TRUE, n_processed |-> 0]
    /\ lastCycle = NoCycle
    /\ pubLog = <<>>
    /\ sleepUntil = 0
    /\ crashed = FALSE
    /\ procs = IdleProcs

NextValidate == CronCycle \/ Tick

SpecValidate == InitValidate /\ [][NextValidate]_vars

\* A specification for the enumeration errors: someone drops an entry that
\* cannot be loaded into the pending root while the cron loop runs.
JunkEntry == [meta |-> InstaUploadMeta("", None, None, 0), images |-> <<>>]

PutJunk ==
    /\ JunkName \notin DOMAIN unprocessed
    /\ unprocessed' = (JunkName :> JunkEntry) @@ unprocessed
    /\ UNCHANGED <<processed, now, cfg, created, lastNew, lastCycle, pubLog,
                   sleepUntil, crashed, procs>>

NextJunk == CronCycle \/ Tick \/ PutJunk

SpecJunk == InitValidate /\ [][NextJunk]_vars

\* A specification for two instances on the same roots.  Each instance runs
\* try_upload once and `new` once, one statement group at a time, and the
\* steps of the two interleave.  The collaborator and the filesystem fail
\* only where the other instance has taken the record away.
UploadLoad(i) ==
    /\ procs.upload[i].pc = "idle"
    /\ LET loaded == load_all_from_parent_dir(unprocessed)
           st == IF unloadable(unprocessed)
                 THEN [pc |-> "done", head |-> None, outcome |-> "loaderror",
                       escaped |-> TRUE]
                 ELSE IF Len(loaded) = 0
                 THEN [pc |-> "done", head |-> None, outcome |-> "empty",
                       escaped |-> FALSE]
                 ELSE IF not_ready(loaded[1], now)
                 THEN [pc |-> "done", head |-> Some(loaded[1]),
                       outcome |-> "notready", escaped |-> FALSE]
                 ELSE IF ~validate_post(loaded[1])
                 THEN [pc |-> "done", head |-> Some(loaded[1]),
                       outcome |-> "invalid", escaped |-> FALSE]
                 ELSE [pc |-> "loaded", head |-> Some(loaded[1]),
                       outcome |-> "none", escaped |-> FALSE]
       IN  procs' = [procs EXCEPT !.upload[i] = st]
    /\ UNCHANGED <<unprocessed, processed, now, cfg, created, lastNew,
                   lastCycle, pubLog, sleepUntil, crashed>>

\* cli.upload_post(upload): the image paths point into the pending root, so
\* the upload raises when the record's directory is no longer there.
UploadPost(i) ==
    /\ procs.upload[i].pc = "loaded"
    /\ LET upload == procs.upload[i].head[1]
           gone == upload.id \notin DOMAIN unprocessed
           up == upload_post(upload, IF gone THEN "publish" ELSE "none")
       IN  /\ pubLog' = IF up.posted
                        THEN Append(pubLog, [id |-> upload.id, at |-> now])
                        ELSE pubLog
           /\ procs' = [procs EXCEPT !.upload[i] =
                          IF up.raised
                          THEN [@ EXCEPT !.pc = "done", !.outcome = "pubfail"]
                          ELSE [@ EXCEPT !.pc = "posted"]]
    /\ UNCHANGED <<unprocessed, processed, now, cfg, created, lastNew,
                   lastCycle, sleepUntil, crashed>>

\* os.rename raises when the source is gone or the destination exists; the
\* except clause on line 154 catches it.
UploadRename(i) ==
    /\ procs.upload[i].pc = "posted"
    /\ LET id == procs.upload[i].head[1].id
           mv == os_rename(unprocessed, processed, id,
                           id \notin DOMAIN unprocessed \/ id \in DOMAIN processed)
       IN  /\ unprocessed' = mv.src
           /\ processed' = mv.dst
           /\ procs' = [procs EXCEPT !.upload[i] =
                          [@ EXCEPT !.pc = "done",
                                    !.outcome = IF mv.raised THEN "renamefail"
                                                ELSE "ok"]]
    /\ UNCHANGED <<now, cfg, created, lastNew, lastCycle, pubLog, sleepUntil,
                   crashed>>

\* line 196
NewReadProcessed(i) ==
    /\ procs.new[i].pc = "idle"
    /\ procs' = [procs EXCEPT !.new[i] = [@ EXCEPT !.pc = "listed",
                                                   !.seen = processed]]
    /\ UNCHANGED <<unprocessed, processed, now, cfg, created, lastNew,
                   lastCycle, pubLog, sleepUntil, crashed>>

\* lines 197-200
NewReadUnprocessed(i) ==
    /\ procs.new[i].pc = "listed"
    /\ LET newest_upload == newest_upload_of(procs.new[i].seen, unprocessed)
       IN  procs' = [procs EXCEPT !.new[i] =
                       [@ EXCEPT !.pc = "read", !.newest = newest_upload]]
    /\ UNCHANGED <<unprocessed, processed, now, cfg, created, lastNew,
                   lastCycle, pubLog, sleepUntil, crashed>>

\* line 201: a FileExistsError from os.makedirs is not caught
NewWrite(i) ==
    /\ procs.new[i].pc = "read"
    /\ LET w == write_empty_upload(unprocessed, procs.new[i].newest, cfg, now)
       IN  /\ unprocessed' = w.dir
           /\ created' = IF w.ok THEN created + 1 ELSE created
           /\ procs' = [procs EXCEPT !.new[i] =
                          [@ EXCEPT !.pc = "done", !.id = w.id, !.ok = w.ok,
                                    !.escaped = ~w.ok]]
    /\ UNCHANGED <<processed, now, cfg, lastNew, lastCycle, pubLog, sleepUntil,
                   crashed>>

InitTwo ==
    /\ \E k \in Contents :
         unprocessed = (0 :> [meta |-> InstaUploadMeta(k.caption, k.loc_lat,
                                                      k.loc_long, 0),
                              images |-> k.images])
    /\ processed = <<>>
    /\ now = 0
    /\ cfg \in Configs
    /\ created = 1
    /\ lastNew = [id |-> 0, ok |-> TRUE, n_processed |-> 0]
    /\ lastCycle = NoCycle
    /\ pubLog = <<>>
    /\ sleepUntil = 0
    /\ crashed = FALSE
    /\ procs = IdleProcs

NextTwo ==
    \E i \in Instances :
        \/ UploadLoad(i)
        \/ UploadPost(i)
        \/ UploadRename(i)
        \/ NewReadProcessed(i)
        \/ NewReadUnprocessed(i)
        \/ NewWrite(i)

SpecTwo == InitTwo /\ [][NextTwo]_vars

\* A specification for progress: two filled-in records that come due within
\* the horizon, the cron loop scheduled fairly, time advancing, and no
\* failing call once the clock has reached the horizon (so calls fail only
\* finitely often).  Past the horizon time still passes: the sleep ends.
InitLive ==
    /\ cfg \in {c \in Configs : c.default_upload_time = 0}
    /\ \E k0 \in Contents, k1 \in Contents :
         unprocessed =
            (0 :> [meta |-> InstaUploadMeta(k0.caption, k0.loc_lat, k0.loc_long,
                                            cfg.default_upload_delta),
                   images |-> k0.images])
            @@ (1 :> [meta |-> InstaUploadMeta(k1.caption, k1.loc_lat, k1.loc_long,
                                               2 * cfg.default_upload_delta),
                      images |-> k1.images])
    /\ processed = <<>>
    /\ now = 0
    /\ created = 2
    /\ lastNew = [id |-> 1, ok |-> TRUE, n_processed |-> 0]
    /\ lastCycle = NoCycle
    /\ pubLog = <<>>
    /\ sleepUntil = 0
    /\ crashed = FALSE
    /\ procs = IdleProcs

LiveCycle ==
    /\ CronCycle
    /\ now = MaxTime => lastCycle'.outcome \in {"empty", "notready", "invalid", "ok"}

SleepEnds ==
    /\ now = MaxTime
    /\ sleepUntil > now
    /\ sleepUntil' = now
    /\ UNCHANGED <<unprocessed, processed, now, cfg, created, lastNew, lastCycle,
                   pubLog, crashed, procs>>

NextLive == LiveCycle \/ Tick \/ SleepEnds

SpecLive ==
    /\ InitLive
    /\ [][NextLive]_vars
    /\ WF_vars(LiveCycle)
    /\ WF_vars(Tick)
    /\ WF_vars(SleepEnds)

\* A third specification for the claims about next_upload_time: the newest
\* record is absent or carries any upload_at, and `new` runs at any time.
LastUploads == {None} \cup {Some(t) : t \in 0..(MaxTime + 2)}

InitSchedule ==
    /\ \E last \in LastUploads :
         /\ unprocessed =
              IF last = None THEN <<>>
              ELSE (0 :> [meta |-> InstaUploadMeta("c", Some(1), Some(1), last[1]),
                          images |-> <<"a">>])
         /\ created = IF last = None THEN 0 ELSE 1
         /\ lastNew = IF last = None THEN NoNew
                      ELSE [id |-> 0, ok |-> TRUE, n_processed |-> 0]
    /\ processed = <<>>
    /\ now = 0
    /\ cfg \in Configs
    /\ lastCycle = NoCycle
    /\ pubLog = <<>>
    /\ sleepUntil = 0
    /\ crashed = FALSE
    /\ procs = IdleProcs

NextSchedule == New \/ Tick

SpecSchedule == InitSchedule /\ [][NextSchedule]_vars

\* ------------------------------------------------------------------ claims
AllIds == DOMAIN unprocessed \cup DOMAIN processed
RecordOf(id) == IF id \in DOMAIN unprocessed THEN unprocessed[id] ELSE processed[id]
UploadAt(id) == RecordOf(id).meta.upload_at
FailedOutcomes == {"locfail", "pubfail", "renamefail"}
IsZero(x) == x # None /\ x[1] = 0
IsNull(x) == x = None

\* C1: two successful publications of different records are at least
\* default_upload_delta apart (the pacing claim, read on distinct records;
\* repeated publications of one record are claim C4's subject).
Pacing ==
    \A i, j \in 1..Len(pubLog) :
        (i < j /\ pubLog[i].id # pubLog[j].id)
            => pubLog[j].at - pubLog[i].at >= cfg.default_upload_delta

\* C2: publish is invoked only for the lowest-id pending record and only
\* when its upload_at is at or before the time of the cycle; a head whose
\* upload_at is in the future makes the cycle call nothing and move nothing.
NoEarlyPublication ==
    /\ lastCycle.publish_calls > 0 =>
         LET id == lastCycle.id[1] IN
         /\ id \in AllIds
         /\ UploadAt(id) <= lastCycle.at
         /\ \A j \in DOMAIN unprocessed : id <= j
    /\ \A i \in 1..Len(pubLog) :
         /\ pubLog[i].id \in AllIds
         /\ UploadAt(pubLog[i].id) <= pubLog[i].at
    /\ lastCycle.outcome = "notready" =>
         /\ lastCycle.publish_calls = 0
         /\ lastCycle.auth_calls = 0
         /\ lastCycle.id[1] \in DOMAIN unprocessed
         /\ UploadAt(lastCycle.id[1]) > lastCycle.at

NoEarlyPublicationWitness ==
    /\ Len(pubLog) > 0
    /\ lastCycle.outcome = "notready"
    /\ \E id \in DOMAIN unprocessed : unprocessed[id].meta.upload_at > now

PublishedAtMostOnce ==
    \A i, j \in 1..Len(pubLog) : i < j => pubLog[i].id # pubLog[j].id

\* C5: no id is both pending and published, and the ids of both roots
\* together are exactly 0..N-1 for N records created.
IdSlots ==
    /\ DOMAIN unprocessed \cap DOMAIN processed = {}
    /\ AllIds = 0..(created - 1)
    /\ Cardinality(DOMAIN unprocessed) + Cardinality(DOMAIN processed) = created

IdSlotsWitness ==
    /\ created = 2
    /\ DOMAIN processed = {0}
    /\ DOMAIN unprocessed = {1}

\* C6: `new` gives the record the id max(pending + published) + 1, or 0 when
\* both roots are empty, which is the number of records created before it;
\* the write succeeds.
IdAssignment ==
    [][ (created' # created \/ lastNew' # lastNew) =>
          /\ lastNew'.ok
          /\ lastNew'.id = (IF AllIds = {} THEN 0 ELSE MaxOf(AllIds) + 1)
          /\ lastNew'.id = created
          /\ lastNew'.id \in DOMAIN unprocessed'
          /\ created' = created + 1
      ]_vars

\* the second `new` ran after record 0 had been published
IdAssignmentWitness ==
    /\ lastNew.id = 1
    /\ lastNew.ok
    /\ lastNew.n_processed = 1
    /\ 1 \in DOMAIN unprocessed

\* C7: a raising authentication ends the cycle as a no-op and the cron loop
\* goes on to its sleep.
AuthFailureContained ==
    lastCycle.outcome = "authfail" =>
        /\ ~crashed
        /\ lastCycle.sleep_for # None
        /\ lastCycle.id[1] \in DOMAIN unprocessed

\* C8: a cycle in which location lookup, publish or rename fails leaves both
\* roots as they were, with the record pending and not published, calls
\* publish at most once, and the next cycle meets the same head.
StateUnchangedOnFailure ==
    [][ /\ (lastCycle' # lastCycle /\ lastCycle'.outcome \in FailedOutcomes) =>
             /\ unprocessed' = unprocessed
             /\ processed' = processed
             /\ lastCycle'.id[1] \in DOMAIN unprocessed'
             /\ lastCycle'.id[1] \notin DOMAIN processed'
             /\ lastCycle'.publish_calls <= 1
             /\ lastCycle'.auth_calls = 1
             /\ ~crashed'
        /\ (lastCycle' # lastCycle /\ lastCycle.outcome \in FailedOutcomes) =>
             lastCycle'.id = lastCycle.id
      ]_vars

StateUnchangedOnFailureWitness ==
    /\ lastCycle.outcome = "renamefail"
    /\ lastCycle.id = Some(0)
    /\ 0 \in DOMAIN unprocessed
    /\ processed = <<>>

\* C9: a due head is accepted iff it has at least one image and neither
\* coordinate is zero, null counting as non-zero.
Accepted(u) ==
    /\ Len(u.images) >= 1
    /\ ~IsZero(u.meta.loc_lat)
    /\ ~IsZero(u.meta.loc_long)

ValidationResult ==
    lastCycle.outcome \notin {"none", "empty", "notready"} =>
        LET u == RecordOf(0) IN
        /\ (lastCycle.outcome = "invalid") <=> ~Accepted(u)
        /\ u.images = <<>> => lastCycle.outcome = "invalid"
        /\ (u.meta.loc_lat = Some(0) /\ u.meta.loc_long = Some(0))
             => lastCycle.outcome = "invalid"
        /\ (u.meta.loc_lat = Some(1) /\ u.meta.loc_long = Some(0))
             => lastCycle.outcome = "invalid"
        /\ (Len(u.images) = 1 /\ IsNull(u.meta.loc_lat) /\ IsNull(u.meta.loc_long))
             => lastCycle.outcome # "invalid"

ValidationResultWitness ==
    /\ lastCycle.outcome = "ok"
    /\ 0 \in DOMAIN processed
    /\ Len(processed[0].images) = 1
    /\ IsNull(processed[0].meta.loc_lat)
    /\ IsNull(processed[0].meta.loc_long)

\* C10: a record with exactly one null coordinate (the other non-zero) is
\* never posted and never relocated.
HalfSet(u) ==
    /\ IsNull(u.meta.loc_lat) # IsNull(u.meta.loc_long)
    /\ ~IsZero(u.meta.loc_lat)
    /\ ~IsZero(u.meta.loc_long)

HalfSetNeverPublished ==
    /\ \A i \in 1..Len(pubLog) : ~HalfSet(RecordOf(pubLog[i].id))
    /\ \A id \in DOMAIN processed : ~HalfSet(processed[id])
    /\ lastCycle.publish_calls > 0 => ~HalfSet(RecordOf(lastCycle.id[1]))

\* C11: the upload_at given to a new record is today's target time plus the
\* delay when there is no newest record, and otherwise the later of that and
\* the newest record's upload_at plus the delay; it is not moved into the
\* future and is never before the newest upload_at plus the delay.
Candidate(t) ==
    (t - (t % DayLen)) + cfg.default_upload_time + cfg.default_upload_delta

NextUploadTimeResult ==
    [][ created' = created + 1 =>
          LET got == unprocessed'[created].meta.upload_at
              cand == Candidate(now)
          IN  IF AllIds = {}
              THEN got = cand
              ELSE LET floor == UploadAt(MaxOf(AllIds)) + cfg.default_upload_delta
                   IN  /\ got >= floor
                       /\ got >= cand
                       /\ got \in {floor, cand}
      ]_vars

\* record 1 was scheduled from record 0, whose upload_at lies beyond every
\* candidate time
NextUploadTimeResultWitness ==
    /\ lastNew.id = 1
    /\ lastNew.ok
    /\ DOMAIN unprocessed = {0, 1}
    /\ unprocessed[0].meta.upload_at = MaxTime + 2
    /\ unprocessed[1].meta.upload_at
         = unprocessed[0].meta.upload_at + cfg.default_upload_delta

\* C12: a cycle that succeeds makes exactly one publish call, a photo upload
\* iff the record has one image and an album upload iff it has two or more,
\* posts nothing else, and leaves the record published and no longer pending.
SuccessfulPublish ==
    lastCycle.outcome = "ok" =>
        LET id == lastCycle.id[1] IN
        /\ id \in DOMAIN processed
        /\ id \notin DOMAIN unprocessed
        /\ lastCycle.auth_calls = 1
        /\ lastCycle.publish_calls = 1
        /\ Len(processed[id].images) >= 1
        /\ (lastCycle.kind = "photo") <=> (Len(processed[id].images) = 1)
        /\ (lastCycle.kind = "album") <=> (Len(processed[id].images) >= 2)
        /\ Len(pubLog) >= 1
        /\ pubLog[Len(pubLog)] = [id |-> id, at |-> lastCycle.at]
        /\ Cardinality({i \in 1..Len(pubLog) : pubLog[i].at = lastCycle.at}) = 1

\* an album went out while another record stayed pending
SuccessfulPublishWitness ==
    /\ lastCycle.outcome = "ok"
    /\ lastCycle.kind = "album"
    /\ lastCycle.id = Some(0)
    /\ 1 \in DOMAIN unprocessed
    /\ Len(pubLog) = 1

\* C13: a due head that fails validation makes the cycle call nothing and
\* move nothing, and the loop then sleeps check_interval; every cycle that
\* meets such a head rejects it again, so nothing at or behind it is posted
\* or published.
HeadRecord == unprocessed[MinOf(DOMAIN unprocessed)]

InvalidHeadBackpressure ==
    /\ [](lastCycle.outcome = "invalid" =>
            LET id == lastCycle.id[1] IN
            /\ lastCycle.auth_calls = 0
            /\ lastCycle.loc_calls = 0
            /\ lastCycle.publish_calls = 0
            /\ lastCycle.sleep_for = Some(cfg.check_interval)
            /\ ~crashed
            /\ id \in DOMAIN unprocessed
            /\ \A j \in DOMAIN unprocessed : id <= j
            /\ \A j \in DOMAIN processed : j < id
            /\ \A i \in 1..Len(pubLog) : pubLog[i].id < id)
    /\ [][ (/\ lastCycle' # lastCycle
            /\ DOMAIN unprocessed # {}
            /\ HeadRecord.meta.upload_at <= now
            /\ ~Accepted(HeadRecord)) =>
             /\ lastCycle'.outcome = "invalid"
             /\ unprocessed' = unprocessed
             /\ processed' = processed
             /\ pubLog' = pubLog
             /\ sleepUntil' = now + cfg.check_interval
      ]_vars

\* a valid record that is due waits behind the rejected head
InvalidHeadBackpressureWitness ==
    /\ lastCycle.outcome = "invalid"
    /\ lastCycle.id = Some(0)
    /\ DOMAIN unprocessed = {0, 1}
    /\ Accepted(unprocessed[1])
    /\ unprocessed[1].meta.upload_at <= lastCycle.at

\* C14: after a cycle the loop waits check_interval, or in the not-ready
\* case at most min(upload_at - now + 1, check_interval); the wait is never
\* above check_interval and always above zero.
Waited == {"empty", "notready", "invalid", "locfail", "pubfail", "renamefail", "ok"}

WaitComputation ==
    lastCycle.outcome \in Waited =>
        /\ lastCycle.sleep_for # None
        /\ lastCycle.sleep_for[1] <= cfg.check_interval
        /\ lastCycle.sleep_for[1] > 0
        /\ ~crashed
        /\ lastCycle.outcome # "notready"
             => lastCycle.sleep_for[1] = cfg.check_interval
        /\ lastCycle.outcome = "notready"
             => lastCycle.sleep_for[1]
                  <= Min(UploadAt(lastCycle.id[1]) - lastCycle.at + OneSecond,
                         cfg.check_interval)

\* C15: with an unloadable entry in the pending root a cycle ends in an
\* uncaught error before any record is looked at: no call, no change of
\* either root, no sleep, and the loop runs no further cycle.
FatalEnumeration ==
    /\ [](lastCycle.outcome = "loaderror" =>
            /\ crashed
            /\ lastCycle.id = None
            /\ lastCycle.auth_calls = 0
            /\ lastCycle.loc_calls = 0
            /\ lastCycle.publish_calls = 0
            /\ lastCycle.sleep_for = None)
    /\ [][ (lastCycle' # lastCycle /\ JunkName \in DOMAIN unprocessed) =>
             /\ lastCycle'.outcome = "loaderror"
             /\ unprocessed' = unprocessed
             /\ processed' = processed
             /\ pubLog' = pubLog
      ]_vars
    /\ [][ crashed => (crashed' /\ lastCycle' = lastCycle) ]_vars

\* a valid, due record was pending next to the unloadable entry
FatalEnumerationWitness ==
    /\ lastCycle.outcome = "loaderror"
    /\ crashed
    /\ 0 \in DOMAIN unprocessed
    /\ Accepted(unprocessed[0])
    /\ unprocessed[0].meta.upload_at <= lastCycle.at
    /\ pubLog = <<>>

\* C16: `new` adds one record to the pending root and changes no other
\* record of either root; a cycle changes nothing, or moves the head record,
\* as it is, from the pending root to the published root.
FrameOfNewAndDispatch ==
    [][ /\ created' # created =>
             /\ processed' = processed
             /\ lastNew'.id \notin AllIds
             /\ DOMAIN unprocessed' = DOMAIN unprocessed \cup {lastNew'.id}
             /\ \A id \in DOMAIN unprocessed : unprocessed'[id] = unprocessed[id]
        /\ lastCycle' # lastCycle =>
             \/ /\ unprocessed' = unprocessed
                /\ processed' = processed
             \/ /\ DOMAIN unprocessed # {}
                /\ LET h == MinOf(DOMAIN unprocessed) IN
                   /\ DOMAIN unprocessed' = DOMAIN unprocessed \ {h}
                   /\ DOMAIN processed' = DOMAIN processed \cup {h}
                   /\ processed'[h] = unprocessed[h]
                   /\ \A id \in DOMAIN unprocessed' : unprocessed'[id] = unprocessed[id]
                   /\ \A id \in DOMAIN processed : processed'[id] = processed[id]
      ]_vars

\* a filled-in record was published, then `new` ran beside it
FrameOfNewAndDispatchWitness ==
    /\ lastCycle.outcome = "ok"
    /\ lastNew.id = 1
    /\ lastNew.n_processed = 1
    /\ 0 \in DOMAIN processed
    /\ processed[0].meta.caption = "c"
    /\ 1 \in DOMAIN unprocessed
    /\ unprocessed[1].images = <<>>

\* C18: the published ids are 0..k-1 and the pending ids k..N-1 for some k,
\* so the last element of processed + unprocessed is the record with the
\* largest id.
PublishedPrefix ==
    /\ \E k \in 0..created :
         /\ DOMAIN processed = 0..(k - 1)
         /\ DOMAIN unprocessed = k..(created - 1)
    /\ \A p \in DOMAIN processed : \A u \in DOMAIN unprocessed : p < u
    /\ AllIds # {} =>
         newest_upload_of(processed, unprocessed)[1].id = MaxOf(AllIds)

PublishedPrefixWitness ==
    /\ DOMAIN processed = {0}
    /\ DOMAIN unprocessed = {1}
    /\ lastCycle.outcome = "ok"
    /\ lastCycle.id = Some(0)

\* C19: every record has an upload_at, and the upload_at of record k+1 is at
\* least that of record k plus default_upload_delta, also when record k was
\* already published when k+1 was created.
ScheduleSpacing ==
    \A id \in AllIds :
        /\ UploadAt(id) \in Int
        /\ (id + 1) \in AllIds =>
             UploadAt(id + 1) >= UploadAt(id) + cfg.default_upload_delta

\* record 1 was created after record 0 was published, on a later day
ScheduleSpacingWitness ==
    /\ created = 2
    /\ lastNew.id = 1
    /\ lastNew.n_processed = 1
    /\ 0 \in DOMAIN processed
    /\ 1 \in DOMAIN unprocessed
    /\ unprocessed[1].meta.upload_at
         > processed[0].meta.upload_at + cfg.default_upload_delta

\* C17: with two instances on the same roots, two `new` runs that computed
\* the same id never both create the record: the later one ends in an
\* uncaught error; and a rename that fails because the other instance moved
\* the record is swallowed.  (That one record is posted twice is reachable:
\* the witness.)
TwoInstancesUnsafe ==
    /\ \A i, j \in Instances :
         (/\ i # j
          /\ procs.new[i].pc = "done"
          /\ procs.new[j].pc = "done"
          /\ procs.new[i].id = procs.new[j].id) =>
             /\ ~(procs.new[i].ok /\ procs.new[j].ok)
             /\ procs.new[i].ok \/ procs.new[i].escaped
    /\ \A i \in Instances :
         /\ procs.new[i].pc = "done" =>
              (procs.new[i].ok <=> ~procs.new[i].escaped)
         /\ (procs.new[i].pc = "done" /\ procs.new[i].ok) =>
              procs.new[i].id \in AllIds
         /\ procs.upload[i].outcome = "renamefail" =>
              /\ procs.upload[i].pc = "done"
              /\ ~procs.upload[i].escaped

\* record 0 was posted by both instances, the loser's rename failed, and
\* both `new` runs computed id 1, of which one was written
TwoInstancesUnsafeWitness ==
    /\ Len(pubLog) = 2
    /\ pubLog[1].id = pubLog[2].id
    /\ procs.upload[1].outcome = "ok"
    /\ procs.upload[2].outcome = "renamefail"
    /\ procs.new[1].pc = "done"
    /\ procs.new[2].pc = "done"
    /\ procs.new[1].id = procs.new[2].id
    /\ procs.new[1].ok
    /\ ~procs.new[2].ok
    /\ procs.new[2].escaped

\* C20: with valid records, fair scheduling, advancing time and finitely
\* many failing calls, every pending record is eventually published.
Progress == <>(DOMAIN unprocessed = {})

====
